---- MODULE Spec2Model ----
(***************************************************************************)
(* Model of the Celcoin BaaS tester (src/test._cellcoin_endpoints.py):     *)
(* the CelcoinTester object (access token, TestSession), its HTTP          *)
(* executor _make_request, authenticate, the domain operations, the        *)
(* pipeline and interactive drivers and main.                              *)
(*                                                                         *)
(* Two specifications share the state:                                     *)
(*   Spec     main() as the program runs it: mode choice, pipeline,        *)
(*            interactive menu, save_report.                               *)
(*   SpecApi  arbitrary sequences of authenticate / _make_request calls on *)
(*            one CelcoinTester, with the full set of modelled responses   *)
(*            and HTTP methods (also the ones the drivers never pass).     *)
(*                                                                         *)
(* Python values: a dict is a TLA+ function from keys to strings, None of  *)
(* a dict-typed field is NoneDict, None of a string-typed field is None,   *)
(* a formatted string is the sequence of its pieces (an f-string           *)
(* f"HTTP {s}: {t}" is <<"HTTP ", ToString(s), ": ", t>>), None of a       *)
(* message is the empty sequence.                                          *)
(***************************************************************************)
EXTENDS Integers, Sequences, FiniteSets, TLC

VARIABLES
    pc,            \* position of main / the driver
    caller,        \* who called run_pipeline_test: "main" or "menu"
    steps,         \* menu iterations (Spec) or calls (SpecApi) taken so far
    access_token,  \* CelcoinTester.access_token
    results,       \* TestSession.results
    end_time,      \* TestSession.end_time
    clock,         \* the wall clock datetime.now() reads
    sent,          \* history: HTTP requests issued, with the headers sent
    invoked,       \* history: _make_request invocations, in order
    last,          \* history: the last call's outcome as its caller sees it
    pipeBase,      \* history: Len(sent) when run_pipeline_test was last entered
    finishCalls,   \* history: number of TestSession.finish calls
    report,        \* outcome of the last save_report
    exit           \* how main ended

vars == <<pc, caller, steps, access_token, results, end_time, clock,
          sent, invoked, last, pipeBase, finishCalls, report, exit>>

----------------------------------------------------------------------------
(* Bounds *)

\* iterations of the interactive `while True` loop explored
MaxMenu == 1
\* calls explored by SpecApi
MaxCalls == 3

----------------------------------------------------------------------------
(* Python values *)

None == "None"
NoneDict == [py_none |-> "None"]
EmptyDict == << >>
NoMessage == << >>
NoStatus == 0
NoTime == 0

Get(d, k) == IF k \in DOMAIN d THEN d[k] ELSE None

\* truth value of an Optional[str]: None and "" are false
Truthy(s) == s # None /\ s # ""

IsPrefix(s, t) == Len(s) <= Len(t) /\ SubSeq(t, 1, Len(s)) = s

----------------------------------------------------------------------------
(* The remote API: what one HTTP call can come back with *)

TokAText == "{\"access_token\":\"tokA\",\"expires_in\":3600}"
TokBText == "{\"access_token\":\"tokB\"}"
EmptyTokText == "{\"access_token\":\"\"}"
ErrText == "{\"error\":\"invalid_client\"}"
OkText == "{\"status\":\"ok\"}"
PlainText == "Internal Server Error"
EmptyText == ""

JsonTexts == {TokAText, TokBText, EmptyTokText, ErrText, OkText}

\* response.json(): the parsed object, or raises (ok = FALSE)
ResponseJson(text) ==
    CASE text = TokAText     -> [ok |-> TRUE, obj |-> [access_token |-> "tokA", expires_in |-> "3600"]]
      [] text = TokBText     -> [ok |-> TRUE, obj |-> [access_token |-> "tokB"]]
      [] text = EmptyTokText -> [ok |-> TRUE, obj |-> [access_token |-> ""]]
      [] text = ErrText      -> [ok |-> TRUE, obj |-> [error |-> "invalid_client"]]
      [] text = OkText       -> [ok |-> TRUE, obj |-> [status |-> "ok"]]
      [] OTHER               -> [ok |-> FALSE, obj |-> NoneDict]

Http(s, t) == [kind |-> "http", status |-> s, text |-> t,
               headers |-> [content_type |-> IF t \in JsonTexts THEN "application/json" ELSE "text/plain"]]
Raises(m) == [kind |-> "exception", status |-> NoStatus, text |-> m, headers |-> NoneDict]

Timeout == Raises("Read timed out")

AuthStatuses == {200, 201, 401}
AuthTexts == {TokAText, TokBText, EmptyTokText, ErrText, PlainText, EmptyText}
AuthResponses == {Http(s, t) : s \in AuthStatuses, t \in AuthTexts} \cup {Timeout}

ExecStatuses == {200, 202, 500}
ExecTexts == {OkText, PlainText}
Responses == {Http(s, t) : s \in ExecStatuses, t \in ExecTexts} \cup {Timeout}

\* the responses the driver specification draws from
DriverAuthResponses ==
    {Http(200, TokAText), Http(200, TokBText), Http(200, PlainText),
     Http(401, ErrText), Http(401, PlainText), Timeout}
DriverResponses == {Http(200, OkText), Http(500, PlainText), Timeout}

SupportedMethods == {"POST", "GET", "PUT", "DELETE"}
Methods == SupportedMethods \cup {"PATCH"}

----------------------------------------------------------------------------
(* TestResult and TestSession *)

\* TestResult.__init__
TestResult(test_name, endpoint, method, now) ==
    [test_name |-> test_name, endpoint |-> endpoint, method |-> method,
     timestamp |-> now, request_payload |-> NoneDict, response_status |-> NoStatus,
     response_body |-> NoneDict, response_headers |-> NoneDict,
     execution_time |-> NoTime, success |-> FALSE, error_message |-> NoMessage]

\* TestSession.add_result
add_result(rs, r) == Append(rs, r)

\* get_duration without the end_time test
get_duration_unguarded(endt, start) == <<ToString(endt - start), "s">>

\* TestSession.get_duration
get_duration(endt, start) ==
    IF endt # NoTime THEN <<ToString(endt - start), "s">> ELSE <<"Em andamento">>

StartTime == 1

----------------------------------------------------------------------------
(* CelcoinTester.get_headers and the header choice of _make_request *)

get_headers(tok) ==
    [Authorization |-> <<"Bearer ", tok>>, Content_Type |-> "application/json"]

\* header choice that never attaches the token
RequestHeadersBare(tok) == [Content_Type |-> "application/json"]

RequestHeaders(tok) ==
    IF Truthy(tok) THEN get_headers(tok) ELSE [Content_Type |-> "application/json"]

----------------------------------------------------------------------------
(* CelcoinTester._make_request *)

\* success classification that accepts 200 only
IsSuccessStatus200(status) == status = 200

IsSuccessStatus(status) == status \in {200, 201, 202}

\* the request raises inside the try block: a transport failure, or the
\* ValueError of an unsupported method
ExecRaises(method, resp) == method \notin SupportedMethods \/ resp.kind = "exception"

\* exception message that forgets the ValueError of an unsupported method
ExecExceptionMessageTransportOnly(method, resp) == <<resp.text>>

ExecExceptionMessage(method, resp) ==
    IF method \notin SupportedMethods
    THEN <<"Metodo HTTP nao suportado: ", method>>
    ELSE <<resp.text>>

\* response body without the raw-text fallback
ExecResponseBodyNoFallback(resp) == ResponseJson(resp.text).obj

\* the body of a received response: response.json(), else the raw text
ExecResponseBody(resp) ==
    IF ResponseJson(resp.text).ok
    THEN ResponseJson(resp.text).obj
    ELSE [raw_response |-> resp.text]

\* the TestResult _make_request builds
ExecResult(method, endpoint, payload, test_name, resp, now) ==
    LET r0 == [TestResult(test_name, endpoint, method, now) EXCEPT !.request_payload = payload]
    IN  IF ExecRaises(method, resp)
        THEN [r0 EXCEPT !.execution_time = 1,
                        !.success = FALSE,
                        !.error_message = ExecExceptionMessage(method, resp)]
        ELSE LET ok == IsSuccessStatus(resp.status)
             IN [r0 EXCEPT !.execution_time = 1,
                           !.response_status = resp.status,
                           !.response_headers = resp.headers,
                           !.response_body = ExecResponseBody(resp),
                           !.success = ok,
                           !.error_message =
                               IF ok THEN NoMessage
                               ELSE <<"HTTP ", ToString(resp.status), ": ", resp.text>>]

\* a session that records successful calls only
ExecSessionSuccessOnly(rs, r) == IF r.success THEN add_result(rs, r) ELSE rs

\* the session after _make_request: the result is added on every path
ExecSession(rs, r) == add_result(rs, r)

\* _make_request as a step of the program: everything it changes
MakeRequest(method, endpoint, payload, test_name, resp) ==
    LET r == ExecResult(method, endpoint, payload, test_name, resp, clock + 1)
    IN  /\ results' = ExecSession(results, r)
        /\ clock' = clock + 1
        /\ invoked' = Append(invoked, [method |-> method, test_name |-> test_name])
        /\ sent' = IF method \in SupportedMethods
                   THEN Append(sent, [by |-> "_make_request", test_name |-> test_name,
                                      headers |-> RequestHeaders(access_token)])
                   ELSE sent
        /\ last' = [fn |-> "_make_request", raised |-> FALSE, returned |-> <<r>>,
                    input |-> resp, method |-> method, token_before |-> access_token,
                len_before |-> Len(results)]
        /\ UNCHANGED access_token

----------------------------------------------------------------------------
(* CelcoinTester.authenticate *)

AuthOkStatus(status) == status = 200

\* an exception reaches the `except Exception` of authenticate: the POST
\* itself fails, or response.json() fails on a body that is not JSON
\* (on a non-200 status response.json() is called only for a non-empty body)
AuthRaises(resp) ==
    \/ resp.kind = "exception"
    \/ /\ resp.kind = "http"
       /\ AuthOkStatus(resp.status) \/ resp.text # EmptyText
       /\ ~ResponseJson(resp.text).ok

\* the return value of authenticate
AuthReturn(resp) == ~AuthRaises(resp) /\ AuthOkStatus(resp.status)

\* a failed authenticate that clears the token
AuthTokenCleared(tok, resp) ==
    IF ~AuthRaises(resp) /\ AuthOkStatus(resp.status)
    THEN Get(ResponseJson(resp.text).obj, "access_token")
    ELSE None

\* access_token after authenticate
AuthToken(tok, resp) ==
    IF AuthReturn(resp)
    THEN Get(ResponseJson(resp.text).obj, "access_token")
    ELSE tok

\* CelcoinConfig: the credentials read from the environment
CLIENT_ID == "client-id-value"
CLIENT_SECRET == "client-secret-value"

\* the form data authenticate posts to /v5/token
AuthFormData ==
    [client_id |-> CLIENT_ID, client_secret |-> CLIENT_SECRET,
     grant_type |-> "client_credentials"]

\* an authenticate that records what it sent and what it received as they are
AuthResultUnredacted(resp, now) ==
    LET r0 == [TestResult("Autenticacao OAuth2", "/v5/token", "POST", now) EXCEPT
                   !.request_payload = AuthFormData,
                   !.response_status = resp.status,
                   !.response_headers = resp.headers]
    IN  IF AuthOkStatus(resp.status)
        THEN [r0 EXCEPT !.response_body = ResponseJson(resp.text).obj,
                        !.success = TRUE]
        ELSE [r0 EXCEPT !.response_body =
                            IF resp.text # EmptyText THEN ResponseJson(resp.text).obj ELSE EmptyDict,
                        !.success = FALSE,
                        !.error_message = <<"Erro na autenticacao: ", ToString(resp.status)>>]

\* the TestResult authenticate builds when no exception interrupts it
AuthResult(resp, now) ==
    LET r0 == [TestResult("Autenticacao OAuth2", "/v5/token", "POST", now) EXCEPT
                   !.request_payload = [client_id |-> "***", grant_type |-> "client_credentials"],
                   !.response_status = resp.status,
                   !.response_headers = resp.headers]
    IN  IF AuthOkStatus(resp.status)
        THEN [r0 EXCEPT !.response_body =
                            [access_token |-> "***",
                             expires_in |-> Get(ResponseJson(resp.text).obj, "expires_in")],
                        !.success = TRUE]
        ELSE [r0 EXCEPT !.response_body =
                            IF resp.text # EmptyText THEN ResponseJson(resp.text).obj ELSE EmptyDict,
                        !.success = FALSE,
                        !.error_message = <<"Erro na autenticacao: ", ToString(resp.status)>>]

\* the session after authenticate: the except branch adds nothing
AuthSession(rs, resp, now) ==
    IF AuthRaises(resp) THEN rs ELSE add_result(rs, AuthResult(resp, now))

\* authenticate as a step of the program: everything it changes
Authenticate(resp) ==
    /\ access_token' = AuthToken(access_token, resp)
    /\ results' = AuthSession(results, resp, clock + 1)
    /\ clock' = IF resp.kind = "http" THEN clock + 1 ELSE clock
    /\ sent' = Append(sent, [by |-> "authenticate", test_name |-> "Autenticacao OAuth2",
                             headers |-> EmptyDict])
    /\ last' = [fn |-> "authenticate", raised |-> FALSE,
                returned |-> <<AuthReturn(resp)>>,
                input |-> resp, method |-> "POST", token_before |-> access_token,
                len_before |-> Len(results)]
    /\ UNCHANGED invoked

----------------------------------------------------------------------------
(* The domain operations: each builds its request and calls _make_request *)

test_pix_dict_lookup(resp) ==
    MakeRequest("POST", "/pix/v1/dict/v2/key",
                [key |-> "test@example.com", keyType |-> "EMAIL"],
                "DICT Lookup - EMAIL", resp)

test_pix_payment(resp) ==
    MakeRequest("POST", "/pix/v1/payment",
                [amount |-> "10.50",
                 receiver |-> [key |-> "test@example.com", keyType |-> "EMAIL"],
                 clientCode |-> "TEST_uuid", description |-> "Teste automatizado",
                 urgency |-> "HIGH", initiationType |-> "MANUAL"],
                "Pagamento PIX - R$ 10.50", resp)

test_pix_status(resp) ==
    MakeRequest("GET", "/pix/v1/payment/status", NoneDict, "Status PIX - 12345678...", resp)

test_ted_transfer(resp) ==
    MakeRequest("POST", "/v5/transactions/banktransfer",
                [amount |-> "100.00", clientCode |-> "TED_uuid",
                 bank |-> [bankCode |-> "001", agency |-> "1234", account |-> "12345-6"],
                 recipient |-> [name |-> "Joao Silva", document |-> "12345678901"],
                 purpose |-> "01", description |-> "Teste TED via API"],
                "TED Transfer - R$ 100.00", resp)

test_internal_transfer(resp) ==
    MakeRequest("POST", "/baas-wallet-transactions-webservice/v1/wallet/internal/transfer",
                [amount |-> "50.00", clientRequestId |-> "INT_uuid",
                 debitParty |-> [account |-> "111"], creditParty |-> [account |-> "222"],
                 description |-> "Teste interno"],
                "Transferencia Interna - R$ 50.00", resp)

----------------------------------------------------------------------------
(* ReportGenerator.generate_report and CelcoinTester.save_report *)

\* what generate_report ends with: the exception it raises, or "ok".
\* The summary divides by len(results); each detail block formats
\* execution_time with :.3f, which raises on None.
generate_report(rs) ==
    IF Len(rs) = 0 THEN "ZeroDivisionError"
    ELSE IF \E i \in 1..Len(rs) : rs[i].execution_time = NoTime THEN "TypeError"
    ELSE "ok"

\* TestSession.finish
finish(endt, now) == now

\* save_report: finish, generate, write the file (a failed write is logged)
save_report(fileOk) ==
    /\ end_time' = finish(end_time, clock + 1)
    /\ clock' = clock + 1
    /\ finishCalls' = finishCalls + 1
    /\ report' = IF generate_report(results) # "ok" THEN generate_report(results)
                 ELSE IF fileOk THEN "written" ELSE "write_failed"
    /\ last' = [fn |-> "save_report", raised |-> generate_report(results) # "ok",
                returned |-> << >>, input |-> Timeout, method |-> "", token_before |-> access_token,
                len_before |-> Len(results)]
    /\ UNCHANGED <<access_token, results, sent, invoked>>

SaveRaises == generate_report(results) # "ok"

----------------------------------------------------------------------------
(* run_pipeline_test *)

\* a pipeline that always hands over to main's save_report
PipelineReturnToSave(c) == "save"

\* where run_pipeline_test returns to
PipelineReturn(c) == IF c = "main" THEN "save" ELSE "menu"

\* a pipeline that stops at the first failed step
PipelineNextStopOnFailure(step, ok, c) ==
    IF ~ok THEN PipelineReturn(c)
    ELSE CASE step = "pipe_auth"    -> "pipe_lookup"
           [] step = "pipe_lookup"  -> "pipe_payment"
           [] step = "pipe_payment" -> "pipe_status"
           [] step = "pipe_status"  -> "pipe_ted"
           [] step = "pipe_ted"     -> PipelineReturn(c)

\* the position after a pipeline step; ok is the step's outcome.
\* Only a failed authenticate returns early.
PipelineNext(step, ok, c) ==
    CASE step = "pipe_auth"    -> IF ok THEN "pipe_lookup" ELSE PipelineReturn(c)
      [] step = "pipe_lookup"  -> "pipe_payment"
      [] step = "pipe_payment" -> "pipe_status"
      [] step = "pipe_status"  -> "pipe_ted"
      [] step = "pipe_ted"     -> PipelineReturn(c)

PipelineAuth(resp) ==
    /\ pc = "pipe_auth"
    /\ Authenticate(resp)
    /\ pc' = PipelineNext(pc, AuthReturn(resp), caller)
    /\ UNCHANGED <<caller, steps, end_time, pipeBase, finishCalls, report, exit>>

PipelineLookup(resp) ==
    /\ pc = "pipe_lookup"
    /\ test_pix_dict_lookup(resp)
    /\ pc' = PipelineNext(pc, results'[Len(results')].success, caller)
    /\ UNCHANGED <<caller, steps, end_time, pipeBase, finishCalls, report, exit>>

PipelinePayment(resp) ==
    /\ pc = "pipe_payment"
    /\ test_pix_payment(resp)
    /\ pc' = PipelineNext(pc, results'[Len(results')].success, caller)
    /\ UNCHANGED <<caller, steps, end_time, pipeBase, finishCalls, report, exit>>

PipelineStatus(resp) ==
    /\ pc = "pipe_status"
    /\ test_pix_status(resp)
    /\ pc' = PipelineNext(pc, results'[Len(results')].success, caller)
    /\ UNCHANGED <<caller, steps, end_time, pipeBase, finishCalls, report, exit>>

PipelineTed(resp) ==
    /\ pc = "pipe_ted"
    /\ test_ted_transfer(resp)
    /\ pc' = PipelineNext(pc, results'[Len(results')].success, caller)
    /\ UNCHANGED <<caller, steps, end_time, pipeBase, finishCalls, report, exit>>

----------------------------------------------------------------------------
(* main and run_interactive_test *)

\* CelcoinTester(): CelcoinConfig raises without credentials, main reports it
Construct(hasCredentials) ==
    /\ pc = "start"
    /\ pc' = IF hasCredentials THEN "main" ELSE "done"
    /\ exit' = IF hasCredentials THEN exit ELSE "unexpected_error"
    /\ UNCHANGED <<caller, steps, access_token, results, end_time, clock, sent,
                   invoked, last, pipeBase, finishCalls, report>>

\* mode = input(...): "2" runs the pipeline, anything else the menu
ChooseMode(mode) ==
    /\ pc = "main"
    /\ pc' = IF mode = "2" THEN "pipe_auth" ELSE "int_auth"
    /\ caller' = "main"
    /\ pipeBase' = Len(sent)
    /\ UNCHANGED <<steps, access_token, results, end_time, clock, sent, invoked,
                   last, finishCalls, report, exit>>

\* main, mode 2: save_report after run_pipeline_test
MainSave(fileOk) ==
    /\ pc = "save"
    /\ save_report(fileOk)
    /\ pc' = "done"
    /\ exit' = IF SaveRaises THEN "unexpected_error" ELSE "normal"
    /\ UNCHANGED <<caller, steps, pipeBase>>

\* run_interactive_test: the authenticate before the loop
InteractiveAuth(resp) ==
    /\ pc = "int_auth"
    /\ Authenticate(resp)
    /\ pc' = IF AuthReturn(resp) THEN "menu" ELSE "done"
    /\ exit' = IF AuthReturn(resp) THEN exit ELSE "normal"
    /\ UNCHANGED <<caller, steps, end_time, pipeBase, finishCalls, report>>

InMenu == pc = "menu" /\ steps < MaxMenu

MenuFrame == UNCHANGED <<pc, caller, end_time, pipeBase, finishCalls, report, exit>>

MenuLookup(resp) ==
    InMenu /\ test_pix_dict_lookup(resp) /\ steps' = steps + 1 /\ MenuFrame

MenuPayment(resp) ==
    InMenu /\ test_pix_payment(resp) /\ steps' = steps + 1 /\ MenuFrame

MenuStatus(resp) ==
    InMenu /\ test_pix_status(resp) /\ steps' = steps + 1 /\ MenuFrame

MenuTed(resp) ==
    InMenu /\ test_ted_transfer(resp) /\ steps' = steps + 1 /\ MenuFrame

MenuInternal(resp) ==
    InMenu /\ test_internal_transfer(resp) /\ steps' = steps + 1 /\ MenuFrame

\* choices 2, 4, 5 with an amount float() rejects: the ValueError leaves the
\* loop and run_interactive_test and is reported by main
MenuBadAmount ==
    /\ InMenu
    /\ pc' = "done"
    /\ exit' = "unexpected_error"
    /\ steps' = steps + 1
    /\ UNCHANGED <<caller, access_token, results, end_time, clock, sent, invoked,
                   last, pipeBase, finishCalls, report>>

\* choice 6
MenuPipeline ==
    /\ InMenu
    /\ pc' = "pipe_auth"
    /\ caller' = "menu"
    /\ steps' = steps + 1
    /\ pipeBase' = Len(sent)
    /\ UNCHANGED <<access_token, results, end_time, clock, sent, invoked, last,
                   finishCalls, report, exit>>

\* choice 7
MenuSave(fileOk) ==
    /\ pc = "menu"
    /\ save_report(fileOk)
    /\ pc' = "done"
    /\ exit' = IF SaveRaises THEN "unexpected_error" ELSE "normal"
    /\ UNCHANGED <<caller, steps, pipeBase>>

\* choice 8
MenuExit ==
    /\ pc = "menu"
    /\ pc' = "done"
    /\ exit' = "normal"
    /\ UNCHANGED <<caller, steps, access_token, results, end_time, clock, sent,
                   invoked, last, pipeBase, finishCalls, report>>

\* any other choice: a warning, and the menu again
MenuInvalid ==
    /\ InMenu
    /\ steps' = steps + 1
    /\ UNCHANGED <<pc, caller, access_token, results, end_time, clock, sent,
                   invoked, last, pipeBase, finishCalls, report, exit>>

----------------------------------------------------------------------------
(* Specifications *)

NoCall == [fn |-> "", raised |-> FALSE, returned |-> << >>, input |-> Timeout,
           method |-> "", token_before |-> None, len_before |-> 0]

Fresh ==
    /\ caller = "main"
    /\ steps = 0
    /\ access_token = None
    /\ results = << >>
    /\ end_time = NoTime
    /\ clock = StartTime
    /\ sent = << >>
    /\ invoked = << >>
    /\ last = NoCall
    /\ pipeBase = 0
    /\ finishCalls = 0
    /\ report = "none"
    /\ exit = "running"

Init == pc = "start" /\ Fresh

Next ==
    \/ \E c \in BOOLEAN : Construct(c)
    \/ \E m \in {"1", "2"} : ChooseMode(m)
    \/ \E resp \in DriverAuthResponses : PipelineAuth(resp)
    \/ \E resp \in DriverResponses : PipelineLookup(resp)
    \/ \E resp \in DriverResponses : PipelinePayment(resp)
    \/ \E resp \in DriverResponses : PipelineStatus(resp)
    \/ \E resp \in DriverResponses : PipelineTed(resp)
    \/ \E f \in BOOLEAN : MainSave(f)
    \/ \E resp \in DriverAuthResponses : InteractiveAuth(resp)
    \/ \E resp \in DriverResponses : MenuLookup(resp)
    \/ \E resp \in DriverResponses : MenuPayment(resp)
    \/ \E resp \in DriverResponses : MenuStatus(resp)
    \/ \E resp \in DriverResponses : MenuTed(resp)
    \/ \E resp \in DriverResponses : MenuInternal(resp)
    \/ MenuBadAmount
    \/ MenuPipeline
    \/ \E f \in BOOLEAN : MenuSave(f)
    \/ MenuExit
    \/ MenuInvalid

Spec == Init /\ [][Next]_vars

\* calls on one CelcoinTester, in any order
ApiFrame == UNCHANGED <<pc, caller, end_time, pipeBase, finishCalls, report, exit>>

ApiAuthenticate(resp) ==
    /\ pc = "api"
    /\ steps < MaxCalls
    /\ Authenticate(resp)
    /\ steps' = steps + 1
    /\ ApiFrame

ApiMakeRequest(method, resp) ==
    /\ pc = "api"
    /\ steps < MaxCalls
    /\ MakeRequest(method, "/api", NoneDict, "Teste", resp)
    /\ steps' = steps + 1
    /\ ApiFrame

InitApi == pc = "api" /\ Fresh

NextApi ==
    \/ \E resp \in AuthResponses : ApiAuthenticate(resp)
    \/ \E method \in SupportedMethods, resp \in Responses : ApiMakeRequest(method, resp)
    \/ \E method \in Methods \ SupportedMethods : ApiMakeRequest(method, Timeout)

SpecApi == InitApi /\ [][NextApi]_vars

----------------------------------------------------------------------------
(* Properties *)

LastResult == results[Len(results)]
IsAuthResult(r) == r.endpoint = "/v5/token"
BareHeaders == [Content_Type |-> "application/json"]
BearerHeaders(tok) == [Authorization |-> <<"Bearer ", tok>>, Content_Type |-> "application/json"]
LastIsAuth == last.fn = "authenticate"
LastIsExec == last.fn = "_make_request"
LastExecFailedToSend ==
    LastIsExec /\ (last.method \notin {"POST", "GET", "PUT", "DELETE"} \/ last.input.kind = "exception")

ExecutorResults == SelectSeq(results, LAMBDA r : ~IsAuthResult(r))

\* the results the executor contributed are, in order, one per
\* _make_request invocation
C1_OnePerInvocation ==
    /\ Len(ExecutorResults) = Len(invoked)
    /\ \A i \in 1..Len(invoked) :
          /\ ExecutorResults[i].method = invoked[i].method
          /\ ExecutorResults[i].test_name = invoked[i].test_name

\* C1: the results the executor contributed are, in order, one per
\* _make_request invocation; every step keeps the old results as a prefix,
\* and a step that invokes _make_request appends exactly one result, the one
\* of that invocation, at the end.
C1_AppendOnly ==
    /\ []C1_OnePerInvocation
    /\ [][/\ IsPrefix(results, results')
          /\ invoked' # invoked =>
                /\ Len(results') = Len(results) + 1
                /\ results'[Len(results')] = last'.returned[1]]_vars

\* C1 witness: the pipeline ran to its end with a successful call, a call
\* answered by an error status and a call that raised.
C1_Witness ==
    /\ Len(invoked) = 4
    /\ \E i, j, k \in 1..Len(results) :
          /\ ~IsAuthResult(results[i]) /\ results[i].success
          /\ ~IsAuthResult(results[j]) /\ results[j].response_status = 500
          /\ ~IsAuthResult(results[k]) /\ results[k].response_status = NoStatus

\* the parts of C2 that do not depend on what "a token is held" means
C2_Stores ==
    (/\ LastIsAuth
     /\ last.input.kind = "http"
     /\ last.input.status = 200
     /\ ResponseJson(last.input.text).ok
     /\ "access_token" \in DOMAIN ResponseJson(last.input.text).obj)
    => access_token = ResponseJson(last.input.text).obj.access_token

C2_Keeps ==
    /\ (LastIsAuth /\ last.returned = <<FALSE>>) => access_token = last.token_before
    /\ LastIsExec => access_token = last.token_before

\* C2 as claimed: a token stored by a successful authenticate (any value of
\* access_token in the body) is carried as a bearer header by every
\* executor call that sends a request; only with no token stored is the
\* bare content-type header sent.
C2_Original ==
    /\ C2_Stores
    /\ C2_Keeps
    /\ (LastIsExec /\ last.method \in SupportedMethods) =>
          sent[Len(sent)].headers =
              IF last.token_before # None THEN BearerHeaders(last.token_before)
              ELSE BareHeaders

\* C2 amended: a successful authenticate stores the body's access_token;
\* a failed authenticate and every executor call leave the stored token as
\* it was; an executor call that sends a request carries the stored token
\* as a bearer header when it is a non-empty string, and the bare
\* content-type header when no token is stored or the stored one is empty.
C2_BearerWhenNonEmpty ==
    /\ C2_Stores
    /\ C2_Keeps
    /\ (LastIsExec /\ last.method \in SupportedMethods) =>
          sent[Len(sent)].headers =
              IF last.token_before \notin {None, ""} THEN BearerHeaders(last.token_before)
              ELSE BareHeaders

\* C2 witness: tokA was stored, a later authenticate failed with a recorded
\* result, and the executor call after it still carried tokA.
C2_Witness ==
    /\ LastIsExec
    /\ Len(sent) = 3
    /\ sent[1].by = "authenticate" /\ sent[2].by = "authenticate"
    /\ Len(results) = 3 /\ results[1].success /\ ~results[2].success
    /\ sent[3].headers = BearerHeaders("tokA")

\* C3: authenticate answered with a status other than 200 leaves
\* access_token as it was and returns False.
C3_Non200KeepsToken ==
    (LastIsAuth /\ last.input.kind = "http" /\ last.input.status # 200) =>
        /\ access_token = last.token_before
        /\ last.returned = <<FALSE>>

\* C3 witness: a 401 while tokA is held.
C3_Witness ==
    /\ LastIsAuth /\ last.input.kind = "http" /\ last.input.status = 401
    /\ last.token_before = "tokA" /\ access_token = "tokA"

\* C4 as claimed: every authenticate that returns False (non-200 status with
\* any body, or a transport exception) leaves the token as it was and has
\* appended exactly one failed authentication result.
C4_FailedAuthRecorded ==
    (LastIsAuth /\ (last.input.kind = "exception" \/ last.input.status # 200)) =>
        /\ last.returned = <<FALSE>>
        /\ access_token = last.token_before
        /\ Len(results) = last.len_before + 1
        /\ IsAuthResult(LastResult)
        /\ ~LastResult.success

\* C5 as claimed: every recorded result is a success exactly when its
\* status is 200, 201 or 202.
C5_Original ==
    \A i \in 1..Len(results) :
        results[i].success <=> results[i].response_status \in {200, 201, 202}

\* C5 amended: a result recorded by _make_request is a success exactly when
\* its status is 200, 201 or 202; a result recorded by authenticate is a
\* success exactly when its status is 200; a result without status is a
\* failure.
C5_SuccessClassification ==
    \A i \in 1..Len(results) :
        /\ results[i].success <=>
              IF IsAuthResult(results[i])
              THEN results[i].response_status = 200
              ELSE results[i].response_status \in {200, 201, 202}
        /\ results[i].response_status = NoStatus => ~results[i].success

\* C5 witness: an executor result with 202, one with 500, one without
\* status.
C5_Witness ==
    \E i, j, k \in 1..Len(results) :
        /\ ~IsAuthResult(results[i]) /\ results[i].response_status = 202 /\ results[i].success
        /\ ~IsAuthResult(results[j]) /\ results[j].response_status = 500 /\ ~results[j].success
        /\ results[k].response_status = NoStatus /\ ~results[k].success

\* C6: a _make_request whose request raises (transport failure, or the
\* ValueError of an unsupported method) still returns a TestResult: failed,
\* without status, with the exception's message, appended to the session.
C6_ExecutorCatches ==
    LastExecFailedToSend =>
        /\ ~last.raised
        /\ Len(results) = last.len_before + 1
        /\ LastResult = last.returned[1]
        /\ ~LastResult.success
        /\ LastResult.response_status = NoStatus
        /\ LastResult.error_message =
              IF last.method \notin {"POST", "GET", "PUT", "DELETE"}
              THEN <<"Metodo HTTP nao suportado: ", last.method>>
              ELSE <<last.input.text>>

\* C6 witness: an unsupported method after a call that timed out.
C6_Witness ==
    /\ LastIsExec /\ last.method = "PATCH"
    /\ Len(results) >= 2
    /\ results[Len(results) - 1].error_message = <<"Read timed out">>
    /\ ~IsAuthResult(results[Len(results) - 1])

PipeSteps == {"pipe_auth", "pipe_lookup", "pipe_payment", "pipe_status", "pipe_ted"}
InPipeline == pc \in PipeSteps

PipeNames ==
    <<"Autenticacao OAuth2", "DICT Lookup - EMAIL", "Pagamento PIX - R$ 10.50",
      "Status PIX - 12345678...", "TED Transfer - R$ 100.00">>

\* the calls issued since run_pipeline_test was entered, by name
PipeCalls == [i \in 1..(Len(sent) - pipeBase) |-> sent[pipeBase + i].test_name]

PipeDone(p) ==
    CASE p = "pipe_auth"    -> 0
      [] p = "pipe_lookup"  -> 1
      [] p = "pipe_payment" -> 2
      [] p = "pipe_status"  -> 3
      [] p = "pipe_ted"     -> 4

\* C7: inside run_pipeline_test the calls issued so far are authenticate,
\* lookup, payment, status, TED, each once and in that order, up to the
\* current step; the pipeline is left after authenticate only when
\* authenticate returned False, and then no other call was issued; a
\* successful authenticate is followed by the lookup; otherwise the
\* pipeline is left only after all five calls, whatever their outcomes.
C7_PipelineOrder ==
    /\ [](InPipeline => PipeCalls = SubSeq(PipeNames, 1, PipeDone(pc)))
    /\ [][/\ (pc = "pipe_auth" /\ pc' # pc) =>
                /\ last'.fn = "authenticate"
                /\ IF last'.returned = <<TRUE>>
                   THEN pc' = "pipe_lookup"
                   ELSE pc' \notin PipeSteps /\ PipeCalls' = SubSeq(PipeNames, 1, 1)
          /\ (InPipeline /\ pc # "pipe_auth" /\ pc' \notin PipeSteps) =>
                PipeCalls' = PipeNames]_vars

\* C7 witness: the pipeline has ended after five calls although the lookup
\* was answered 500 and the payment raised.
C7_Witness ==
    /\ pc = "save"
    /\ Len(results) = 5
    /\ results[2].response_status = 500
    /\ results[3].response_status = NoStatus
    /\ results[5].success

\* C8 as claimed: when the pipeline run from main ends at an authenticate
\* answered with a status other than 200, the session holds exactly one
\* result, a failure whose error message contains the status code.
C8_Auth401OneResult ==
    (/\ pc = "save"
     /\ LastIsAuth
     /\ last.input.kind = "http"
     /\ last.input.status # 200) =>
        /\ Len(results) = 1
        /\ ~results[1].success
        /\ \E i \in 1..Len(results[1].error_message) :
              results[1].error_message[i] = ToString(last.input.status)

\* C9: end_time, once set, keeps its value in every step, and the duration
\* is other than "Em andamento" only after finish has been called.
C9_EndTimeSetOnce ==
    /\ [](get_duration(end_time, StartTime) # <<"Em andamento">> => finishCalls > 0)
    /\ [][end_time # NoTime => end_time' = end_time]_vars

\* C9 witness: the run ended after save_report, with end_time set by the
\* one finish call.
C9_Witness ==
    /\ pc = "done"
    /\ finishCalls = 1
    /\ end_time # NoTime
    /\ get_duration(end_time, StartTime) # <<"Em andamento">>

\* C10: for a received response whose body is not JSON, _make_request
\* raises nothing, the result's body is the raw text under raw_response,
\* and the result is a success exactly when the status is 200, 201 or 202.
C10_RawFallback ==
    (/\ LastIsExec
     /\ last.method \in {"POST", "GET", "PUT", "DELETE"}
     /\ last.input.kind = "http"
     /\ last.input.text \notin JsonTexts) =>
        /\ ~last.raised
        /\ LastResult = last.returned[1]
        /\ LastResult.response_body = [raw_response |-> last.input.text]
        /\ LastResult.response_status = last.input.status
        /\ LastResult.success <=> last.input.status \in {200, 201, 202}

\* C10 witness: a 200 with a plain-text body, recorded as a success, after
\* a 500 with a plain-text body, recorded as a failure.
C10_Witness ==
    /\ LastIsExec
    /\ last.input.status = 200 /\ last.input.text = PlainText
    /\ LastResult.success
    /\ Len(results) >= 2
    /\ results[Len(results) - 1].response_body = [raw_response |-> PlainText]
    /\ results[Len(results) - 1].response_status = 500
    /\ ~results[Len(results) - 1].success

\* a menu operation (choices 1 to 5) has run and its call failed
MenuOperationFailed ==
    /\ pc = "menu"
    /\ invoked' # invoked
    /\ ~results'[Len(results')].success

\* the pipeline chosen from the menu (choice 6) ends, at a failed
\* authenticate or after the TED call
MenuPipelineEnds == InPipeline /\ caller = "menu" /\ pc' \notin PipeSteps

\* the authenticate that opens run_interactive_test has run
StartupAuthDone == pc = "int_auth" /\ pc' # pc

\* C11 as claimed: in interactive mode every failed operation, the
\* authenticate at startup included, leaves the driver at the menu with the
\* run still going.
C11_Original ==
    [][/\ MenuOperationFailed => (pc' = "menu" /\ exit' = "running")
       /\ MenuPipelineEnds => (pc' = "menu" /\ exit' = "running")
       /\ StartupAuthDone => (pc' = "menu" /\ exit' = "running")]_vars

\* C11 amended: in interactive mode a menu operation whose call fails, and
\* the pipeline chosen from the menu however it ends (a failed authenticate
\* included), leave the driver at the menu with the run still going; the
\* authenticate at startup leads to the menu only when it succeeds, and a
\* failed one ends the run, normally and without a report.
C11_MenuSurvivesFailures ==
    [][/\ MenuOperationFailed => (pc' = "menu" /\ exit' = "running")
       /\ MenuPipelineEnds => (pc' = "menu" /\ exit' = "running")
       /\ StartupAuthDone =>
             IF last'.returned = <<TRUE>>
             THEN pc' = "menu" /\ exit' = "running"
             ELSE pc' = "done" /\ exit' = "normal" /\ report' = "none"]_vars

\* C11 witness: the pipeline chosen from the menu stopped at a failed
\* authenticate that recorded nothing, and the menu is offered again.
C11_Witness ==
    /\ pc = "menu"
    /\ caller = "menu"
    /\ exit = "running"
    /\ LastIsAuth /\ last.returned = <<FALSE>>
    /\ last.input.kind = "exception"
    /\ Len(sent) = 2

\* C12 as claimed: whenever save_report has run (after the pipeline in
\* main, or from menu choice 7) the session it reported on holds at least
\* one result, so generate_report did not divide by zero.
C12_ReportHasResults ==
    finishCalls > 0 => (Len(results) >= 1 /\ report # "ZeroDivisionError")

\* the strings a result holds in its payload, its body and its message
ResultStrings(r) ==
    {r.request_payload[k] : k \in DOMAIN r.request_payload}
        \cup {r.response_body[k] : k \in DOMAIN r.response_body}
        \cup {r.error_message[i] : i \in DOMAIN r.error_message}

\* the token values the modelled token endpoint issues
TokenValues == {"tokA", "tokB"}

\* two response bodies that are the same JSON object but for the value of
\* access_token
SameButToken(t1, t2) ==
    /\ ResponseJson(t1).ok /\ ResponseJson(t2).ok
    /\ DOMAIN ResponseJson(t1).obj = DOMAIN ResponseJson(t2).obj
    /\ "access_token" \in DOMAIN ResponseJson(t1).obj
    /\ \A k \in DOMAIN ResponseJson(t1).obj \ {"access_token"} :
          ResponseJson(t1).obj[k] = ResponseJson(t2).obj[k]

\* no result holds the credentials, and every authentication result shows
\* the client id as "***"
CredentialsRedacted ==
    \A i \in 1..Len(results) :
        /\ CLIENT_ID \notin ResultStrings(results[i])
        /\ CLIENT_SECRET \notin ResultStrings(results[i])
        /\ IsAuthResult(results[i]) =>
              /\ "client_id" \in DOMAIN results[i].request_payload
              /\ results[i].request_payload.client_id = "***"

\* every successful authentication result shows the token as "***"
SuccessTokenRedacted ==
    \A i \in 1..Len(results) :
        (IsAuthResult(results[i]) /\ results[i].success) =>
            /\ "access_token" \in DOMAIN results[i].response_body
            /\ results[i].response_body.access_token = "***"

\* C13 as claimed: no result holds the credentials or the access token the
\* tester holds; authentication results show "***" for the client id, and
\* for the token on success; and the result an authenticate records is the
\* same for any other response that differs only in the token value.
C13_Original ==
    /\ CredentialsRedacted
    /\ SuccessTokenRedacted
    /\ access_token \notin {None, ""} =>
          \A i \in 1..Len(results) : access_token \notin ResultStrings(results[i])
    /\ (LastIsAuth /\ Len(results) = last.len_before + 1) =>
          \A t \in AuthTexts :
              SameButToken(last.input.text, t) =>
                  AuthResult(Http(last.input.status, t), LastResult.timestamp) = LastResult

\* C13 amended: no result holds the client id or the client secret, and
\* every authentication result shows the client id as "***"; the result of
\* a successful authenticate (HTTP 200) shows the token as "***", holds no
\* token value and is the same for any other 200 response that differs only
\* in the token value; the results of the executor hold no token value when
\* the response did not carry one. (The body received with a status other
\* than 200 is recorded as received.)
C13_Redaction ==
    /\ CredentialsRedacted
    /\ SuccessTokenRedacted
    /\ \A i \in 1..Len(results) :
          (~IsAuthResult(results[i]) \/ results[i].success) =>
              ResultStrings(results[i]) \cap TokenValues = {}
    /\ (LastIsAuth /\ Len(results) = last.len_before + 1 /\ last.input.status = 200) =>
          \A t \in AuthTexts :
              SameButToken(last.input.text, t) =>
                  AuthResult(Http(200, t), LastResult.timestamp) = LastResult

\* C13 witness: a 200 stored tokB, recorded as "***" like the response with
\* an empty token would have been, and an executor call then sent tokB as
\* bearer and recorded its result.
C13_Witness ==
    /\ LastIsExec
    /\ last.token_before = "tokB"
    /\ sent[Len(sent)].headers = BearerHeaders("tokB")
    /\ Len(results) = 2
    /\ IsAuthResult(results[1]) /\ results[1].success
    /\ results[1].response_body.access_token = "***"
    /\ SameButToken(TokBText, EmptyTokText)

====
